---- MODULE Spec2Model ----
(***************************************************************************)
(* Model of go.py: extraction of battery-swap station names from billing  *)
(* PDFs and their aggregation into a frequency table.                     *)
(*                                                                         *)
(* Text is modelled as a sequence of Unicode code points, so that the     *)
(* regular expressions and substring tests of the source act on the same  *)
(* characters as in the program.                                           *)
(***************************************************************************)
EXTENDS Integers, Sequences, FiniteSets, TLC

(* ---------------------------------------------------------------------- *)
(* String literals of the source, as code points                          *)
(* ---------------------------------------------------------------------- *)

\* line 21: the alternation (?:站|店|門市|公所|中心|停車場), in its order
STATION_SUFFIXES ==
    << <<31449>>, <<24215>>, <<38272, 24066>>, <<20844, 25152>>,
       <<20013, 24515>>, <<20572, 36554, 22580>> >>

\* line 25: "電池服務明細表"
PAGE_MARKER == <<38651, 27744, 26381, 21209, 26126, 32048, 34920>>

\* line 40: "(安時)"
UNIT_MARKER == <<40, 23433, 26178, 41>>

\* line 47: "換電免費時段折抵"
EXCLUDE_FREE_PERIOD == <<25563, 38651, 20813, 36027, 26178, 27573, 25240, 25269>>

\* line 47: "計費數量"
EXCLUDE_BILLING_QTY == <<35336, 36027, 25976, 37327>>

(* ---------------------------------------------------------------------- *)
(* Character classes of Python's re (str patterns are Unicode-aware)      *)
(* ---------------------------------------------------------------------- *)

\* \s and str.strip(): the code points for which str.isspace() is true
IsSpace(c) ==
    c \in ((9..13) \cup (28..32) \cup {133, 160, 5760} \cup (8192..8202)
           \cup {8232, 8233, 8239, 8287, 12288})

\* \d: decimal digits (ASCII and fullwidth forms)
IsDigit(c) == c \in (48..57) \/ c \in (65296..65305)

\* \w: alphanumerics and underscore (ASCII letters, digits, CJK ideographs)
IsWord(c) ==
    \/ IsDigit(c)
    \/ c \in (65..90)
    \/ c \in (97..122)
    \/ c = 95
    \/ c \in (19968..40959)

\* line 21: the class [一-龥\w\s\d-]
InStationClass(c) ==
    \/ c \in (19968..40869)
    \/ IsWord(c)
    \/ IsSpace(c)
    \/ IsDigit(c)
    \/ c = 45

(* ---------------------------------------------------------------------- *)
(* String operations                                                       *)
(* ---------------------------------------------------------------------- *)

\* whether sub occurs in s at position p
StartsAt(s, p, sub) ==
    /\ p >= 1
    /\ p + Len(sub) - 1 <= Len(s)
    /\ \A k \in 1..Len(sub) : s[p + k - 1] = sub[k]

RECURSIVE FindFrom(_, _, _)
\* str.find from position p: the first position of sub in s, 0 when absent
FindFrom(s, sub, p) ==
    IF p + Len(sub) - 1 > Len(s) THEN 0
    ELSE IF StartsAt(s, p, sub) THEN p
    ELSE FindFrom(s, sub, p + 1)

\* Python's  sub in s
StrIn(sub, s) == FindFrom(s, sub, 1) # 0

RECURSIVE LStrip(_)
LStrip(s) ==
    IF s # <<>> /\ IsSpace(Head(s)) THEN LStrip(Tail(s)) ELSE s

RECURSIVE RStrip(_)
RStrip(s) ==
    IF s # <<>> /\ IsSpace(s[Len(s)]) THEN RStrip(SubSeq(s, 1, Len(s) - 1)) ELSE s

\* str.strip()
Strip(s) == RStrip(LStrip(s))

RECURSIVE Join(_)
\* "".join(list)
Join(list) ==
    IF list = <<>> THEN <<>> ELSE Head(list) \o Join(Tail(list))

(* ---------------------------------------------------------------------- *)
(* time_pattern = \d{2}:\d{2}:\d{2}   (line 22)                            *)
(* ---------------------------------------------------------------------- *)

TimeMatchAt(s, p) ==
    /\ p + 7 <= Len(s)
    /\ IsDigit(s[p]) /\ IsDigit(s[p + 1]) /\ s[p + 2] = 58
    /\ IsDigit(s[p + 3]) /\ IsDigit(s[p + 4]) /\ s[p + 5] = 58
    /\ IsDigit(s[p + 6]) /\ IsDigit(s[p + 7])

RECURSIVE TimeSearchFrom(_, _)
TimeSearchFrom(s, p) ==
    IF p > Len(s) THEN FALSE
    ELSE IF TimeMatchAt(s, p) THEN TRUE
    ELSE TimeSearchFrom(s, p + 1)

\* time_pattern.search(row_text) is not None
time_pattern_search(s) == TimeSearchFrom(s, 1)

(* ---------------------------------------------------------------------- *)
(* station_pattern = ([class]+(?:suffixes))   (line 21)                    *)
(* ---------------------------------------------------------------------- *)

RECURSIVE ClassRunEnd(_, _)
\* greedy [class]+ : the last position of the run of class characters that
\* starts at p (p - 1 when s[p] is not in the class)
ClassRunEnd(s, p) ==
    IF p <= Len(s) /\ InStationClass(s[p]) THEN ClassRunEnd(s, p + 1) ELSE p - 1

RECURSIVE SuffixEndAt(_, _, _)
\* the alternation tried in order at position p from alternative k on: the
\* last position of the first alternative that matches, 0 when none does
SuffixEndAt(s, p, k) ==
    IF k > Len(STATION_SUFFIXES) THEN 0
    ELSE IF StartsAt(s, p, STATION_SUFFIXES[k]) THEN p + Len(STATION_SUFFIXES[k]) - 1
    ELSE SuffixEndAt(s, p, k + 1)

\* mutant: the run never gives a character back
BacktrackFrom_NoGiveBack(s, p, j) ==
    IF j < p THEN 0 ELSE SuffixEndAt(s, j + 1, 1)

RECURSIVE BacktrackFrom(_, _, _)
\* the run s[p..j] is followed by a suffix, else the run gives back one
\* character; 0 when the run would become empty
BacktrackFrom(s, p, j) ==
    IF j < p THEN 0
    ELSE IF SuffixEndAt(s, j + 1, 1) # 0 THEN SuffixEndAt(s, j + 1, 1)
    ELSE BacktrackFrom(s, p, j - 1)

\* mutant: the suffix group is optional, ([class]+(?:suffixes)?)
StationMatchEnd_SuffixOptional(s, p) ==
    IF ClassRunEnd(s, p) >= p THEN ClassRunEnd(s, p) ELSE 0

\* the last position of the match that starts at p, 0 when there is none
StationMatchEnd(s, p) == BacktrackFrom(s, p, ClassRunEnd(s, p))

RECURSIVE FindAllFrom(_, _)
FindAllFrom(s, p) ==
    IF p > Len(s) THEN <<>>
    ELSE LET e == StationMatchEnd(s, p)
         IN  IF e = 0 THEN FindAllFrom(s, p + 1)
             ELSE <<SubSeq(s, p, e)>> \o FindAllFrom(s, e + 1)

\* station_pattern.findall(row_text)   (line 43)
station_pattern_findall(s) == FindAllFrom(s, 1)

(* ---------------------------------------------------------------------- *)
(* re.sub(r'\s+[A-D]$', '', s)   (line 48)                                 *)
(* ---------------------------------------------------------------------- *)

RECURSIVE SpaceRunEnd(_, _)
SpaceRunEnd(s, p) ==
    IF p <= Len(s) /\ IsSpace(s[p]) THEN SpaceRunEnd(s, p + 1) ELSE p - 1

\* $ matches at the end of the string and before a newline that ends it
AtDollar(s, p) == p = Len(s) + 1 \/ (p = Len(s) /\ s[p] = 10)

RECURSIVE DesignatorBacktrack(_, _, _)
\* \s+ holds s[p..j]; then [A-D] and $ must follow, else \s+ gives back
DesignatorBacktrack(s, p, j) ==
    IF j < p THEN 0
    ELSE IF j + 1 <= Len(s) /\ s[j + 1] \in 65..68 /\ AtDollar(s, j + 2) THEN j + 1
    ELSE DesignatorBacktrack(s, p, j - 1)

\* the last position of the match of \s+[A-D]$ that starts at p, 0 when none
DesignatorMatchEnd(s, p) == DesignatorBacktrack(s, p, SpaceRunEnd(s, p))

RECURSIVE SubFrom(_, _)
SubFrom(s, p) ==
    IF p > Len(s) THEN <<>>
    ELSE LET e == DesignatorMatchEnd(s, p)
         IN  IF e = 0 THEN <<s[p]>> \o SubFrom(s, p + 1)
             ELSE SubFrom(s, e + 1)

re_sub_designator(s) == SubFrom(s, 1)

(* ---------------------------------------------------------------------- *)
(* Body of the loops of extract_swap_stations_from_pdf                     *)
(* ---------------------------------------------------------------------- *)

\* mutant: either anchor is enough
IsCandidateRow_Either(text) == time_pattern_search(text) \/ StrIn(UNIT_MARKER, text)

\* line 40: time_pattern.search(row_text) and "(安時)" in row_text
IsCandidateRow(text) == time_pattern_search(text) /\ StrIn(UNIT_MARKER, text)

\* mutant: only the first exclusion phrase is tested
NotExcluded_FirstPhraseOnly(cleaned) == ~StrIn(EXCLUDE_FREE_PERIOD, cleaned)

\* line 47: neither exclusion phrase occurs in the stripped candidate
NotExcluded(cleaned) ==
    ~StrIn(EXCLUDE_FREE_PERIOD, cleaned) /\ ~StrIn(EXCLUDE_BILLING_QTY, cleaned)

\* lines 46-48: the final value of cleaned_station for one candidate
CleanedStation(cand) ==
    LET cleaned == Strip(cand)
    IN  IF NotExcluded(cleaned) THEN Strip(re_sub_designator(cleaned)) ELSE cleaned

\* lines 45-50, one iteration: what stations.append receives (at most one name)
Appended(cand) ==
    IF NotExcluded(Strip(cand)) /\ CleanedStation(cand) # <<>>
    THEN <<CleanedStation(cand)>>
    ELSE <<>>

RECURSIVE AppendedAll(_)
\* lines 45-50, the whole loop over found_stations
AppendedAll(found) ==
    IF found = <<>> THEN <<>> ELSE Appended(Head(found)) \o AppendedAll(Tail(found))

\* lines 38-50 for one row text: the station names the row adds
ExtractRow(text) ==
    IF ~IsCandidateRow(text) THEN <<>>
    ELSE AppendedAll(station_pattern_findall(text))

(* ---------------------------------------------------------------------- *)
(* One page: lines 25-50                                                   *)
(*                                                                         *)
(* A word of page.get_text("words") is [y |-> its y0 in tenths of a unit, *)
(* text |-> its text].  rows, a defaultdict(list), is [order |-> its keys  *)
(* in insertion order, cells |-> key -> list of texts].                    *)
(* ---------------------------------------------------------------------- *)

\* line 34: round(word[1]), Python's round of a float to the nearest
\* integer, a tie going to the even one
PyRound(y) ==
    LET q == y \div 10
        r == y % 10
    IN  IF r < 5 THEN q
        ELSE IF r > 5 THEN q + 1
        ELSE IF q % 2 = 0 THEN q ELSE q + 1

\* line 32
EmptyRows == [order |-> <<>>, cells |-> <<>>]

\* lines 34-35: rows[y0].append(word[4])
AddWord(rs, word) ==
    LET y0 == PyRound(word.y)
    IN  IF y0 \in DOMAIN rs.cells
        THEN [rs EXCEPT !.cells[y0] = Append(@, word.text)]
        ELSE [order |-> Append(rs.order, y0),
              cells |-> [k \in DOMAIN rs.cells \cup {y0} |->
                            IF k = y0 THEN <<word.text>> ELSE rs.cells[k]]]

RECURSIVE GroupWords(_, _)
\* lines 33-35, the whole loop
GroupWords(rs, ws) ==
    IF ws = <<>> THEN rs ELSE GroupWords(AddWord(rs, Head(ws)), Tail(ws))

RECURSIVE InsertSorted(_, _)
InsertSorted(sorted, k) ==
    IF sorted = <<>> THEN <<k>>
    ELSE IF k < Head(sorted) THEN <<k>> \o sorted
    ELSE <<Head(sorted)>> \o InsertSorted(Tail(sorted), k)

RECURSIVE SortAscending(_, _)
SortAscending(sorted, keys) ==
    IF keys = <<>> THEN sorted
    ELSE SortAscending(InsertSorted(sorted, Head(keys)), Tail(keys))

\* mutant: rows.keys() unsorted, in insertion order
SortedKeys_InsertionOrder(keys) == keys

\* line 37: sorted(rows.keys())
SortedKeys(keys) == SortAscending(<<>>, keys)

RECURSIVE VisitRows(_, _)
\* lines 37-50, the whole loop over the sorted keys
VisitRows(rs, keys) ==
    IF keys = <<>> THEN <<>>
    ELSE ExtractRow(Join(rs.cells[Head(keys)])) \o VisitRows(rs, Tail(keys))

\* mutant: no page is skipped
HasMarker_Always(page) == TRUE

\* line 25: the page is skipped unless its text holds the marker
HasMarker(page) == StrIn(PAGE_MARKER, page.text)

\* lines 25-50 for one page that can be read: the names the page adds
ExtractPage(page) ==
    IF ~HasMarker(page) THEN <<>>
    ELSE IF page.words = <<>> THEN <<>>
    ELSE LET rs == GroupWords(EmptyRows, page.words)
         IN  VisitRows(rs, SortedKeys(rs.order))

(* ---------------------------------------------------------------------- *)
(* analyze_bills_in_folder: lines 57-83                                    *)
(* ---------------------------------------------------------------------- *)

\* str.lower() on the ASCII letters
Lower(s) == [i \in DOMAIN s |-> IF s[i] \in 65..90 THEN s[i] + 32 ELSE s[i]]

\* str.endswith
EndsWith(s, suffix) ==
    Len(suffix) <= Len(s) /\ SubSeq(s, Len(s) - Len(suffix) + 1, Len(s)) = suffix

\* line 59: f.lower().endswith('.pdf')
IsPdfName(f) == EndsWith(Lower(f), <<46, 112, 100, 102>>)

\* line 59: the list comprehension
PdfFiles(listing) == SelectSeq(listing, IsPdfName)

\* line 18: stations = []
NewStations == <<>>

\* mutant: the exception leaves the function and the loop of line 67
AfterException_Propagates == "raised"

\* lines 52-55: the handler prints and falls through to the return
AfterException == "return"

Range(seq) == {seq[i] : i \in DOMAIN seq}

Occurrences(seq, x) == Cardinality({i \in DOMAIN seq : seq[i] = x})

\* mutant: the number of distinct names
TotalSwaps_Unique(series) == Cardinality(Range(series))

\* line 80: len(station_series)
TotalSwaps(series) == Len(series)

\* mutant: every name that occurs is counted once
ValueCounts_Presence(series) == [name \in Range(series) |-> 1]

\* line 81: station_series.value_counts(), as the mapping name -> count
ValueCounts(series) == [name \in Range(series) |-> Occurrences(series, name)]

\* lines 63 and 77: pd.Series()
EmptySeries == ValueCounts(<<>>)

(* ---------------------------------------------------------------------- *)
(* State                                                                    *)
(* ---------------------------------------------------------------------- *)

VARIABLES
    pc,               \* position in the code
    stations,         \* line 18
    row_text,         \* line 38
    found_stations,   \* line 43
    station_idx,      \* position of the loop of line 45 in found_stations
    station,          \* line 45: the candidate of the last iteration
    cleaned_station,  \* lines 46-48: its final value in that iteration
    words,            \* line 28
    word_idx,         \* position of the loop of line 33 in words
    rows,             \* line 32
    row_keys,         \* line 37: what is left of sorted(rows.keys())
    visited,          \* history: the rows visited, [y_coord, row_text]
    pdf_files,        \* line 59
    file_idx,         \* position of the loop of line 67 in pdf_files
    doc,              \* line 24: the pages read so far, as numbers in PAGES
    failed,           \* whether the handler of line 52 ran for this document
    all_swaps,        \* line 58
    log,              \* the messages printed at line 53
    total_swaps,      \* line 80, and the first value returned
    station_counts,   \* line 81, and the second value returned
    results           \* history: per document, what line 70 received

rowVars == <<row_text, found_stations, station_idx, station, cleaned_station>>

pageVars == <<words, word_idx, rows, row_keys, visited>>

docVars ==
    <<pdf_files, file_idx, doc, failed, all_swaps, log, total_swaps,
      station_counts, results>>

vars == <<pc, stations, rowVars, pageVars, docVars>>

RowVarsInit ==
    /\ row_text = <<>>
    /\ found_stations = <<>>
    /\ station_idx = 0
    /\ station = <<>>
    /\ cleaned_station = <<>>

PageVarsInit ==
    /\ words = <<>>
    /\ word_idx = 0
    /\ rows = EmptyRows
    /\ row_keys = <<>>
    /\ visited = <<>>

DocVarsInit ==
    /\ pdf_files = <<>>
    /\ file_idx = 0
    /\ doc = <<>>
    /\ failed = FALSE
    /\ all_swaps = <<>>
    /\ log = <<>>
    /\ total_swaps = 0
    /\ station_counts = EmptySeries
    /\ results = <<>>

(* ---------------------------------------------------------------------- *)
(* RowSpec: lines 38-50 on one row text.  The row texts are the rows of   *)
(* the end-to-end scenarios and every concatenation of at most            *)
(* MaxSegments segments.                                                   *)
(* ---------------------------------------------------------------------- *)

MaxSegments == 4

\* "陽光公所A 12:30:45 0.85(安時)"
SCENARIO_ROW_1 ==
    <<38525, 20809, 20844, 25152, 65, 32, 49, 50, 58, 51, 48, 58, 52, 53, 32,
      48, 46, 56, 53, 40, 23433, 26178, 41>>

\* "換電免費時段折抵 01:00:00 (安時)"
SCENARIO_ROW_2 ==
    <<25563, 38651, 20813, 36027, 26178, 27573, 25240, 25269, 32,
      48, 49, 58, 48, 48, 58, 48, 48, 32, 40, 23433, 26178, 41>>

\* "信義站"
XINYI_STATION == <<20449, 32681, 31449>>

\* "忠孝店"
ZHONGXIAO_SHOP == <<24544, 23389, 24215>>

\* "12:30:45"
A_TIME == <<49, 50, 58, 51, 48, 58, 52, 53>>

\* "信義站", " A", "12:30:45", "(安時)", "換電免費時段折抵", "計費數量", "店",
\* "1:30:45"
ROW_SEGMENTS ==
    << XINYI_STATION,
       <<32, 65>>,
       A_TIME,
       UNIT_MARKER,
       EXCLUDE_FREE_PERIOD,
       EXCLUDE_BILLING_QTY,
       <<24215>>,
       <<49, 58, 51, 48, 58, 52, 53>> >>

SegmentLists == UNION {[1..n -> 1..Len(ROW_SEGMENTS)] : n \in 0..MaxSegments}

RowTexts ==
    {SCENARIO_ROW_1, SCENARIO_ROW_2}
    \cup {Join([i \in DOMAIN l |-> ROW_SEGMENTS[l[i]]]) : l \in SegmentLists}

RowInit ==
    /\ pc = "classify"
    /\ stations = NewStations
    /\ row_text \in RowTexts
    /\ found_stations = <<>>
    /\ station_idx = 0
    /\ station = <<>>
    /\ cleaned_station = <<>>
    /\ PageVarsInit
    /\ DocVarsInit

\* lines 40-41
Classify ==
    /\ pc = "classify"
    /\ pc' = IF IsCandidateRow(row_text) THEN "findall" ELSE "discarded"
    /\ UNCHANGED <<stations, rowVars, pageVars, docVars>>

\* line 43
FindAll ==
    /\ pc = "findall"
    /\ found_stations' = station_pattern_findall(row_text)
    /\ station_idx' = 1
    /\ pc' = "clean"
    /\ UNCHANGED <<stations, row_text, station, cleaned_station, pageVars, docVars>>

\* lines 45-50, one iteration
CleanStation ==
    /\ pc = "clean"
    /\ station_idx <= Len(found_stations)
    /\ station' = found_stations[station_idx]
    /\ cleaned_station' = CleanedStation(found_stations[station_idx])
    /\ stations' = stations \o Appended(found_stations[station_idx])
    /\ station_idx' = station_idx + 1
    /\ UNCHANGED <<pc, row_text, found_stations, pageVars, docVars>>

\* line 45: the loop is exhausted
RowDone ==
    /\ pc = "clean"
    /\ station_idx > Len(found_stations)
    /\ pc' = "row_done"
    /\ UNCHANGED <<stations, rowVars, pageVars, docVars>>

RowNext == Classify \/ FindAll \/ CleanStation \/ RowDone

RowSpec == RowInit /\ [][RowNext]_vars

(* ---------------------------------------------------------------------- *)
(* PageSpec: lines 28-50 on the words of one page that holds the marker.  *)
(* The words are every list of at most MaxWords words, each a text of     *)
(* WORD_TEXTS at a coordinate of Y_COORDS.                                 *)
(* ---------------------------------------------------------------------- *)

MaxWords == 3

\* "12:30:45(安時)"
TIME_AND_UNIT == A_TIME \o UNIT_MARKER

\* "信義站", "12:30:45(安時)", "忠孝店12:30:45(安時)"
WORD_TEXTS == <<XINYI_STATION, TIME_AND_UNIT, ZHONGXIAO_SHOP \o TIME_AND_UNIT>>

\* 9.6, 10.5, 10.6 and 11.5, in tenths
Y_COORDS == {96, 105, 106, 115}

PageWords == [y : Y_COORDS, text : Range(WORD_TEXTS)]

WordLists == UNION {[1..n -> PageWords] : n \in 0..MaxWords}

PageInit ==
    /\ pc = "words"
    /\ stations = NewStations
    /\ RowVarsInit
    /\ words \in WordLists
    /\ word_idx = 0
    /\ rows = EmptyRows
    /\ row_keys = <<>>
    /\ visited = <<>>
    /\ DocVarsInit

\* lines 29-32
CheckWords ==
    /\ pc = "words"
    /\ IF words = <<>>
       THEN pc' = "page_skipped" /\ UNCHANGED <<rows, word_idx>>
       ELSE pc' = "group" /\ rows' = EmptyRows /\ word_idx' = 1
    /\ UNCHANGED <<stations, rowVars, words, row_keys, visited, docVars>>

\* lines 33-35, one iteration
GroupWord ==
    /\ pc = "group"
    /\ word_idx <= Len(words)
    /\ rows' = AddWord(rows, words[word_idx])
    /\ word_idx' = word_idx + 1
    /\ UNCHANGED <<pc, stations, rowVars, words, row_keys, visited, docVars>>

\* line 37: sorted(rows.keys())
SortRows ==
    /\ pc = "group"
    /\ word_idx > Len(words)
    /\ row_keys' = SortedKeys(rows.order)
    /\ pc' = "visit"
    /\ UNCHANGED <<stations, rowVars, words, word_idx, rows, visited, docVars>>

\* lines 37-50, one iteration
VisitRow ==
    /\ pc = "visit"
    /\ row_keys # <<>>
    /\ row_text' = Join(rows.cells[Head(row_keys)])
    /\ stations' = stations \o ExtractRow(row_text')
    /\ visited' = Append(visited, [y_coord |-> Head(row_keys), row_text |-> row_text'])
    /\ row_keys' = Tail(row_keys)
    /\ UNCHANGED <<pc, found_stations, station_idx, station, cleaned_station,
                   words, word_idx, rows, docVars>>

\* line 37: the loop is exhausted
PageDone ==
    /\ pc = "visit"
    /\ row_keys = <<>>
    /\ pc' = "page_done"
    /\ UNCHANGED <<stations, rowVars, pageVars, docVars>>

PageNext == CheckWords \/ GroupWord \/ SortRows \/ VisitRow \/ PageDone

PageSpec == PageInit /\ [][PageNext]_vars

(* ---------------------------------------------------------------------- *)
(* Spec: analyze_bills_in_folder on a folder of at most MaxEntries         *)
(* entries, each PDF a document of at most MaxPages pages drawn from       *)
(* PAGES.  A document may fail to open, and a page may fail to be read.    *)
(* ---------------------------------------------------------------------- *)

MaxEntries == 4

MaxPages == 2

\* the k-th entry of os.listdir: "a.pdf", "b.PDF", "c.txt", "d.pdf", ...
EntryName(k) ==
    <<96 + k>> \o (IF k % 3 = 0 THEN <<46, 116, 120, 116>>
                   ELSE IF k % 3 = 2 THEN <<46, 80, 68, 70>>
                   ELSE <<46, 112, 100, 102>>)

Listings == {[k \in 1..n |-> EntryName(k)] : n \in 0..MaxEntries}

\* page.get_text("text") for a page with these words: one word per line
PageText(ws) == Join([i \in DOMAIN ws |-> ws[i].text \o <<10>>])

ReadablePage(ws) == [readable |-> TRUE, text |-> PageText(ws), words |-> ws]

\* 1: the marker as a heading, "忠孝店" and "12:30:45(安時)" on one line with
\*    coordinates 120.5 and 119.6, "信義站" alone on a line below them, the
\*    lines emitted out of order
\* 2: the marker and the one line "信義站12:30:45(安時)"
\* 3: the line of page 2 without the marker
\* 4: a page that cannot be read
PAGES ==
    << ReadablePage(<< [y |-> 1205, text |-> ZHONGXIAO_SHOP],
                       [y |-> 1400, text |-> XINYI_STATION],
                       [y |-> 500, text |-> PAGE_MARKER],
                       [y |-> 1196, text |-> TIME_AND_UNIT] >>),
       ReadablePage(<< [y |-> 500, text |-> PAGE_MARKER],
                       [y |-> 1000, text |-> XINYI_STATION \o TIME_AND_UNIT] >>),
       ReadablePage(<< [y |-> 1000, text |-> XINYI_STATION \o TIME_AND_UNIT] >>),
       [readable |-> FALSE, text |-> <<>>, words |-> <<>>] >>

\* line 69: os.path.join('.', pdf_file)
PdfPath(pdf_file) == <<46, 47>> \o pdf_file

\* lines 25-50 on each page of PAGES that can be read
PageNames ==
    [n \in DOMAIN PAGES |-> IF PAGES[n].readable THEN ExtractPage(PAGES[n]) ELSE <<>>]

RECURSIVE ReferenceNames(_)
\* the names of a document, given as the numbers of its pages in PAGES, read
\* from its first page to its last
ReferenceNames(pages) ==
    IF pages = <<>> THEN <<>>
    ELSE PageNames[Head(pages)] \o ReferenceNames(Tail(pages))

Init ==
    /\ pc = "listdir"
    /\ stations = <<>>
    /\ RowVarsInit
    /\ PageVarsInit
    /\ DocVarsInit

\* lines 58-65
ListDir ==
    /\ pc = "listdir"
    /\ \E listing \in Listings :
          /\ pdf_files' = PdfFiles(listing)
          /\ all_swaps' = <<>>
          /\ IF PdfFiles(listing) = <<>>
             THEN /\ total_swaps' = 0
                  /\ station_counts' = EmptySeries
                  /\ pc' = "done"
                  /\ UNCHANGED file_idx
             ELSE /\ file_idx' = 1
                  /\ pc' = "next_file"
                  /\ UNCHANGED <<total_swaps, station_counts>>
    /\ UNCHANGED <<stations, rowVars, pageVars, doc, failed, log, results>>

\* lines 67-70 and 18-20: the next file is opened
OpenDoc ==
    /\ pc = "next_file"
    /\ file_idx <= Len(pdf_files)
    /\ stations' = NewStations
    /\ doc' = <<>>
    /\ \E opens \in BOOLEAN :
          IF opens
          THEN /\ pc' = "pages"
               /\ failed' = FALSE
               /\ UNCHANGED log
          ELSE /\ log' = Append(log, PdfPath(pdf_files[file_idx]))
               /\ failed' = TRUE
               /\ pc' = AfterException
    /\ UNCHANGED <<rowVars, pageVars, pdf_files, file_idx, all_swaps,
                   total_swaps, station_counts, results>>

\* lines 24-50, one iteration, and lines 52-53 when the page cannot be read
ReadPage ==
    /\ pc = "pages"
    /\ Len(doc) < MaxPages
    /\ \E n \in DOMAIN PAGES :
          /\ doc' = Append(doc, n)
          /\ IF PAGES[n].readable
             THEN /\ stations' = stations \o PageNames[n]
                  /\ UNCHANGED <<pc, log, failed>>
             ELSE /\ log' = Append(log, PdfPath(pdf_files[file_idx]))
                  /\ failed' = TRUE
                  /\ pc' = AfterException
                  /\ UNCHANGED stations
    /\ UNCHANGED <<rowVars, pageVars, pdf_files, file_idx, all_swaps,
                   total_swaps, station_counts, results>>

\* line 24: the document has no further page
EndOfDoc ==
    /\ pc = "pages"
    /\ pc' = "return"
    /\ UNCHANGED <<stations, rowVars, pageVars, docVars>>

\* lines 55 and 70-71
ReturnDoc ==
    /\ pc = "return"
    /\ all_swaps' = all_swaps \o stations
    /\ results' = Append(results,
                         [file |-> pdf_files[file_idx],
                          failed |-> failed,
                          swaps |-> stations,
                          reference |-> IF failed THEN <<>> ELSE ReferenceNames(doc)])
    /\ file_idx' = file_idx + 1
    /\ pc' = "next_file"
    /\ UNCHANGED <<stations, rowVars, pageVars, pdf_files, doc, failed, log,
                   total_swaps, station_counts>>

\* lines 73-83
Aggregate ==
    /\ pc = "next_file"
    /\ file_idx > Len(pdf_files)
    /\ IF all_swaps = <<>>
       THEN total_swaps' = 0 /\ station_counts' = EmptySeries
       ELSE total_swaps' = TotalSwaps(all_swaps)
            /\ station_counts' = ValueCounts(all_swaps)
    /\ pc' = "done"
    /\ UNCHANGED <<stations, rowVars, pageVars, pdf_files, file_idx, doc, failed,
                   all_swaps, log, results>>

Next == ListDir \/ OpenDoc \/ ReadPage \/ EndOfDoc \/ ReturnDoc \/ Aggregate

Spec == Init /\ [][Next]_vars

(* ---------------------------------------------------------------------- *)
(* Properties of RowSpec and PageSpec                                      *)
(* ---------------------------------------------------------------------- *)

\* sub occurs somewhere in s
HasSubstring(s, sub) ==
    \E p \in 1..(Len(s) - Len(sub) + 1) : SubSeq(s, p, p + Len(sub) - 1) = sub

\* s holds two digits, a colon, two digits, a colon, two digits
HasTimeShape(s) ==
    \E p \in 1..(Len(s) - 7) :
        \A k \in 0..7 : IF k \in {2, 5} THEN s[p + k] = 58 ELSE IsDigit(s[p + k])

HasExclusionPhrase(s) ==
    HasSubstring(s, EXCLUDE_FREE_PERIOD) \/ HasSubstring(s, EXCLUDE_BILLING_QTY)

EndsWithSuffixToken(s) ==
    \E k \in DOMAIN STATION_SUFFIXES :
        /\ Len(STATION_SUFFIXES[k]) <= Len(s)
        /\ SubSeq(s, Len(s) - Len(STATION_SUFFIXES[k]) + 1, Len(s)) = STATION_SUFFIXES[k]

\* s ends with whitespace followed by one letter of A-D
EndsWithSpacedDesignator(s) ==
    Len(s) >= 2 /\ s[Len(s)] \in 65..68 /\ IsSpace(s[Len(s) - 1])

\* the loop of line 45 has run for the candidate held in station
CandidateProcessed == pc \in {"clean", "row_done"} /\ station_idx > 1

\* C2: once a row is classified, it has reached station extraction if and
\* only if its text holds an HH:MM:SS-shaped substring and the unit marker
\* "(安時)"; a discarded row is never searched and adds no station name.
C2_RowClassification ==
    /\ pc \in {"findall", "clean", "row_done", "discarded"} =>
          ((pc # "discarded") <=>
              (HasTimeShape(row_text) /\ HasSubstring(row_text, UNIT_MARKER)))
    /\ pc = "discarded" => (stations = <<>> /\ found_stations = <<>> /\ station_idx = 0)

\* a row with both anchors has reached extraction and yielded a name
C2_Witness ==
    /\ pc = "row_done"
    /\ HasTimeShape(row_text) /\ HasSubstring(row_text, UNIT_MARKER)
    /\ stations # <<>>

\* C3: no emitted station name holds "換電免費時段折抵" or "計費數量"; the row
\* "換電免費時段折抵 01:00:00 (安時)" is a candidate row and yields no name.
C3_NoExcludedName ==
    /\ \A i \in DOMAIN stations : ~HasExclusionPhrase(stations[i])
    /\ row_text = SCENARIO_ROW_2 => (pc # "discarded" /\ stations = <<>>)

\* a candidate holding an exclusion phrase was found and nothing was emitted
C3_Witness ==
    /\ pc = "row_done"
    /\ \E i \in DOMAIN found_stations : HasExclusionPhrase(found_stations[i])
    /\ stations = <<>>

\* C4: for a candidate that is not excluded, a trailing whitespace-plus-A..D
\* designator is removed (once) and anything else, a trailing A..D without
\* whitespace before it included, is left alone; the row
\* "陽光公所A 12:30:45 0.85(安時)" yields exactly the name "陽光公所".
C4_SuffixTrim ==
    /\ (CandidateProcessed /\ ~HasExclusionPhrase(Strip(station))) =>
          LET c == Strip(station)
          IN  IF EndsWithSpacedDesignator(c)
              THEN cleaned_station = Strip(SubSeq(c, 1, Len(c) - 1))
              ELSE cleaned_station = c
    /\ (row_text = SCENARIO_ROW_1 /\ pc = "row_done") =>
          stations = << <<38525, 20809, 20844, 25152>> >>

\* scenario 1 has been processed to its end and has yielded "陽光公所"
C4_Witness ==
    /\ row_text = SCENARIO_ROW_1
    /\ pc = "row_done"
    /\ stations = << <<38525, 20809, 20844, 25152>> >>

\* C10: every emitted station name is non-empty and ends with one of the
\* suffix tokens, and the substitution of line 48 leaves every candidate it
\* is applied to unchanged.
C10_NamesEndWithSuffix ==
    /\ \A i \in DOMAIN stations : stations[i] # <<>> /\ EndsWithSuffixToken(stations[i])
    /\ (CandidateProcessed /\ ~HasExclusionPhrase(Strip(station))) =>
          (cleaned_station = Strip(station) /\ ~EndsWithSpacedDesignator(Strip(station)))

\* a name was emitted from a row in which " A" follows the station name
C10_Witness ==
    /\ pc = "row_done"
    /\ stations # <<>>
    /\ HasSubstring(row_text, XINYI_STATION \o <<32, 65>>)

\* the integer nearest to y (in tenths), the even one of two equally near
NearestInteger(y) ==
    CHOOSE k \in ((y \div 10) - 1)..((y \div 10) + 1) :
        LET d == IF 10 * k >= y THEN 10 * k - y ELSE y - 10 * k
        IN  d < 5 \/ (d = 5 /\ k % 2 = 0)

\* the texts, in emission order, of the words of ws whose row key is k
TextsWithKey(ws, k) ==
    LET sel == SelectSeq(ws, LAMBDA w : NearestInteger(w.y) = k)
    IN  [i \in DOMAIN sel |-> sel[i].text]

\* C1: the words grouped so far lie each in exactly the row whose key is its
\* rounded coordinate, in emission order, none dropped or duplicated; rows
\* are visited in ascending key order, each key once, with the words' texts
\* concatenated.
C1_RowReconstruction ==
    /\ pc \in {"group", "visit", "page_done"} =>
          LET grouped == SubSeq(words, 1, word_idx - 1)
          IN  /\ DOMAIN rows.cells = {NearestInteger(grouped[i].y) : i \in DOMAIN grouped}
              /\ \A k \in DOMAIN rows.cells : rows.cells[k] = TextsWithKey(grouped, k)
    /\ \A i \in 1..(Len(visited) - 1) : visited[i].y_coord < visited[i + 1].y_coord
    /\ \A i \in DOMAIN visited :
          visited[i].row_text = Join(TextsWithKey(words, visited[i].y_coord))
    /\ pc = "page_done" =>
          {visited[i].y_coord : i \in DOMAIN visited} = DOMAIN rows.cells

\* a page of three words emitted bottom-up, two of them merged into one row
C1_Witness ==
    /\ pc = "page_done"
    /\ Len(words) = 3
    /\ Len(visited) = 2
    /\ NearestInteger(words[1].y) > NearestInteger(words[3].y)

(* ---------------------------------------------------------------------- *)
(* Properties of Spec                                                       *)
(* ---------------------------------------------------------------------- *)

RECURSIVE SumCounts(_)
\* the sum of the counts of a frequency table
SumCounts(table) ==
    IF DOMAIN table = {} THEN 0
    ELSE LET name == CHOOSE x \in DOMAIN table : TRUE
         IN  table[name] + SumCounts([x \in DOMAIN table \ {name} |-> table[x]])

RECURSIVE Emitted(_)
\* the names the documents returned, in the order of the documents
Emitted(res) ==
    IF res = <<>> THEN <<>> ELSE Head(res).swaps \o Emitted(Tail(res))

\* how many documents returned exactly these names
DocsYielding(names) == Cardinality({i \in DOMAIN results : results[i].swaps = names})

\* C5: the total returned is the sum of the counts of the returned table; with
\* no name collected the total is 0 and the table is empty.
C5_TotalIsSumOfCounts ==
    pc = "done" =>
        /\ total_swaps = SumCounts(station_counts)
        /\ all_swaps = <<>> => (total_swaps = 0 /\ DOMAIN station_counts = {})

\* a run has ended with two names in the table, one of them counted twice
C5_Witness ==
    /\ pc = "done"
    /\ Cardinality(DOMAIN station_counts) = 2
    /\ total_swaps >= 3

\* C6: a document whose processing failed contributes no station name.
C6_NoPartialRecords ==
    \A i \in DOMAIN results : results[i].failed => results[i].swaps = <<>>

\* C7: a failure is caught where the document is processed, with a message
\* naming the file; when the run stops every file has been processed, in
\* order; a document that did not fail returns the names of its own pages,
\* whatever happened to the others, and the aggregated list holds them.
C7_FailureIsolation ==
    /\ \A i \in DOMAIN results :
          /\ results[i].file = pdf_files[i]
          /\ results[i].failed =>
                \E j \in DOMAIN log : HasSubstring(log[j], results[i].file)
          /\ ~results[i].failed => results[i].swaps = results[i].reference
    /\ (pc = "return" /\ failed) =>
          (log # <<>> /\ HasSubstring(log[Len(log)], pdf_files[file_idx]))
    /\ pc \in {"next_file", "done"} => all_swaps = Emitted(results)
    /\ ~ENABLED Next => Len(results) = Len(pdf_files)

\* a document failed and a later one still yielded its names
C7_Witness ==
    /\ pc = "done"
    /\ \E i, j \in DOMAIN results :
          /\ i < j
          /\ results[i].failed
          /\ ~results[j].failed
          /\ results[j].swaps # <<>>

\* C8: reading a page whose text lacks "電池服務明細表" adds no station name,
\* and the loop over the pages of the document goes on.
C8_PageFilter ==
    [][\A n \in DOMAIN PAGES :
          (/\ pc = "pages"
           /\ doc' = Append(doc, n)
           /\ PAGES[n].readable
           /\ ~HasSubstring(PAGES[n].text, PAGE_MARKER))
          => (stations' = stations /\ pc' = "pages" /\ file_idx' = file_idx)]_vars

\* a page without the marker, whose words form a candidate row, was read
\* first and added nothing; the next page of the document was then read and
\* added its name
C8_Witness ==
    /\ pc = "pages"
    /\ Len(doc) = 2
    /\ PAGES[doc[1]].readable
    /\ ~HasSubstring(PAGES[doc[1]].text, PAGE_MARKER)
    /\ \E i \in DOMAIN PAGES[doc[1]].words :
          ExtractRow(PAGES[doc[1]].words[i].text) # <<>>
    /\ HasSubstring(PAGES[doc[2]].text, PAGE_MARKER)
    /\ stations = <<XINYI_STATION>>

\* the count of each name is the number of times the documents returned it,
\* and no other name is in the table
CountsAreOccurrences ==
    pc = "done" =>
        /\ DOMAIN station_counts = Range(Emitted(results))
        /\ \A name \in DOMAIN station_counts :
              station_counts[name] = Occurrences(Emitted(results), name)

\* two documents each returned "信義站" and "忠孝店", a third "信義站"
ScenarioEachBoth ==
    /\ Len(results) = 3
    /\ DocsYielding(<<XINYI_STATION, ZHONGXIAO_SHOP>>) = 2
    /\ DocsYielding(<<XINYI_STATION>>) = 1

\* the table {"信義站": 2, "忠孝店": 1} with total 3
TableTwoOne ==
    /\ station_counts = [name \in {XINYI_STATION, ZHONGXIAO_SHOP} |->
                            IF name = XINYI_STATION THEN 2 ELSE 1]
    /\ total_swaps = 3

\* C9 as stated: counts are occurrences, and two documents each yielding
\* "信義站" and "忠孝店" once plus one yielding "信義站" once give
\* {"信義站": 2, "忠孝店": 1} with total 3.
C9_AsStated ==
    /\ CountsAreOccurrences
    /\ (pc = "done" /\ ScenarioEachBoth) => TableTwoOne

\* one document returned "信義站", one "忠孝店", a third "信義站"
ScenarioOneEach ==
    /\ Len(results) = 3
    /\ DocsYielding(<<XINYI_STATION>>) = 2
    /\ DocsYielding(<<ZHONGXIAO_SHOP>>) = 1

\* C9 amended: counts are occurrences, and one document yielding "信義站"
\* once, one yielding "忠孝店" once and one more yielding "信義站" once give
\* {"信義站": 2, "忠孝店": 1} with total 3.
C9_PerNameCounts ==
    /\ CountsAreOccurrences
    /\ (pc = "done" /\ ScenarioOneEach) => TableTwoOne

\* the amended scenario has run to its end
C9_Witness ==
    /\ pc = "done"
    /\ ScenarioOneEach
    /\ TableTwoOne

====
